---- MODULE Spec2Model ----
(***************************************************************************)
(* ECG analysis of code/biosignal-processing/ecg_heartrate.py:             *)
(* detect_r_peaks (Pan-Tompkins style R-peak detection),                   *)
(* compute_heart_rate and compute_hrv_metrics.                             *)
(*                                                                         *)
(* Arithmetic is exact: the envelope is kept multiplied by window_size     *)
(* (the window sums), threshold_factor is kept in tenths, and quotients    *)
(* are kept as normalised fractions.  Floating-point rounding of the       *)
(* NumPy operations is not modelled.  Indices are 0-based as in Python;    *)
(* a Python array a is the sequence s with a[i] = s[i+1].                  *)
(***************************************************************************)
EXTENDS Integers, Sequences, FiniteSets, TLC

VARIABLES pc, fs, ecg_len, threshold_factor, filtered, window_size,
          integrated, peaks, err, r_peaks, hr, hrv

vars == <<pc, fs, ecg_len, threshold_factor, filtered, window_size,
          integrated, peaks, err, r_peaks, hr, hrv>>

(***************************************************************************)
(* Bounds of the model.                                                    *)
(***************************************************************************)
\* the longest recording handed to detect_r_peaks
MaxLen == 25
\* the most beats handed to compute_heart_rate and compute_hrv_metrics
MaxBeats == 13
\* the most gaps of a beat array that differ from the regular one
MaxIrregular == 3
\* the largest band power the spectral estimate yields
MaxPower == 1

(***************************************************************************)
(* Constants of the program and of the library calls it makes.             *)
(***************************************************************************)
\* signal.filtfilt pads by 3 * max(len(a), len(b)) = 3 * 5 samples for the
\* order-2 bandpass of line 35 and rejects an input that is not longer
PadLen == 15
\* signal.butter(..., [5, 15], fs=fs) requires 15 < fs / 2
HighCut == 15
\* threshold_factor is kept in tenths: 6 stands for the default 0.6
TfDen == 10

\* sampling rates tried: one the filter design rejects, one where 0.6 * fs
\* and 0.15 * fs are not whole, and two where 0.15 * fs has a fraction of a
\* half or more and the window outgrows a short recording
FsValues == {2 * HighCut, 2 * HighCut + 1, 125, 250}
\* threshold factors tried, in tenths: -0.5, 0, 0.2, the default 0.6
\* and 1.5
TfValues == {-5, 0, 2, 6, 15}
\* recording lengths tried: the longest the filter rejects, the shortest it
\* accepts, and the longest of the model
LenValues == {PadLen, PadLen + 1, MaxLen}
\* heights of the steps of a filtered signal
StepHeights == {1, 2}
\* sampling rates and gaps between beats, in samples, tried for the rate and
\* HRV functions: 5 samples are 50 ms at 100 Hz and 100 ms at 50 Hz
RateFsValues == {50, 100}
RegularGap == 100
IrregularGap == 105

(***************************************************************************)
(* Helpers on sequences.                                                   *)
(***************************************************************************)
Min2(a, b) == IF a < b THEN a ELSE b
Max2(a, b) == IF a > b THEN a ELSE b

RECURSIVE SumRange(_, _, _)
\* s[lo] + ... + s[hi], 0 for an empty range
SumRange(s, lo, hi) == IF lo > hi THEN 0 ELSE s[lo] + SumRange(s, lo + 1, hi)

SeqMax(s) == CHOOSE m \in {s[i] : i \in 1..Len(s)} :
                 \A i \in 1..Len(s) : s[i] <= m

\* np.diff(a): a[i+1] - a[i]; empty for fewer than two elements
Diff(a) == [i \in 1..(Len(a) - 1) |-> a[i + 1] - a[i]]

\* diff ** 2
Squared(d) == [i \in 1..Len(d) |-> d[i] * d[i]]

\* a slip: round(0.15 * fs), halves up, where line 45 truncates
WindowSizeRounded(f) == (15 * f + 50) \div 100

\* int(0.15 * fs)
WindowSize(f) == (15 * f) \div 100

\* a slip: the window length of line 45 reused as the distance of line 52
MinDistanceFromWindow(f) == (15 * f) \div 100

\* int(0.6 * fs)
MinDistance(f) == (6 * f) \div 10

\* np.convolve(squared, np.ones(w) / w, mode='same'), times w.
\* The full convolution has len(squared) + w - 1 terms; 'same' returns the
\* max(len(squared), w) central ones, starting (min(len(squared), w) - 1) // 2
\* terms in.
ConvolveSame(sq, w) ==
    LET n     == Len(sq)
        start == (Min2(n, w) - 1) \div 2
    IN  [i \in 1..Max2(n, w) |->
            LET k == (i - 1) + start
            IN  SumRange(sq, Max2(0, k - w + 1) + 1, Min2(n - 1, k) + 1)]

(***************************************************************************)
(* scipy.signal.find_peaks(x, height=h, distance=d) as called on line 52.  *)
(***************************************************************************)
RECURSIVE PlateauAhead(_, _, _)
\* the inner while of _local_maxima_1d: first index after the plateau at i
PlateauAhead(x, i, a) ==
    IF a < Len(x) - 1 /\ x[a + 1] = x[i + 1]
    THEN PlateauAhead(x, i, a + 1)
    ELSE a

\* a slip: a sample counts as a maximum when neither neighbour is higher,
\* so that the samples of a flat stretch are maxima
LocalMaximaNotStrict(x, i) ==
    {p \in i..(Len(x) - 2) : x[p] <= x[p + 1] /\ x[p + 2] <= x[p + 1]}

RECURSIVE LocalMaxima(_, _)
\* _local_maxima_1d from index i on: the midpoints of the plateaus that rise
\* on the left and fall on the right; the first and last sample are no peaks
LocalMaxima(x, i) ==
    IF i >= Len(x) - 1 THEN {}
    ELSE IF x[i] < x[i + 1]
         THEN LET a == PlateauAhead(x, i, i + 1)
              IN  IF x[a + 1] < x[i + 1]
                  THEN {(i + a - 1) \div 2} \cup LocalMaxima(x, a + 1)
                  ELSE LocalMaxima(x, i + 1)
         ELSE LocalMaxima(x, i + 1)

\* height=threshold keeps x[p] >= threshold = threshold_factor * max(x);
\* tf is in tenths
AboveThreshold(x, p, tf) == x[p + 1] * TfDen >= tf * SeqMax(x)

SelectByHeight(x, cand, tf) == {p \in cand : AboveThreshold(x, p, tf)}

RECURSIVE SelectLeftmostFirst(_, _, _, _)
\* a slip: peaks are visited from left to right, not from the tallest down
SelectLeftmostFirst(x, todo, kept, d) ==
    IF todo = {} THEN {kept}
    ELSE LET p    == CHOOSE a \in todo : \A b \in todo : a <= b
             near == {q \in todo : q # p /\ q - p < d /\ p - q < d}
         IN  SelectLeftmostFirst(x, (todo \ {p}) \ near, kept \cup {p}, d)

RECURSIVE SelectByPeakDistance(_, _, _, _)
\* _select_by_peak_distance: peaks are visited from the tallest down; a peak
\* still kept removes every other peak closer than d.  Equal heights are
\* visited in the order argsort leaves them, which NumPy does not fix: every
\* order is an outcome.  Yields the set of possible kept sets.
SelectByPeakDistance(x, todo, kept, d) ==
    IF todo = {} THEN {kept}
    ELSE LET top == {p \in todo : \A q \in todo : x[q + 1] <= x[p + 1]}
         IN  UNION { LET near == {q \in todo : q # p /\ q - p < d /\ p - q < d}
                     IN  SelectByPeakDistance(x, (todo \ {p}) \ near,
                                              kept \cup {p}, d)
                     : p \in top }

\* the possible results of find_peaks(x, height=tf * max(x), distance=d)
FindPeaks(x, tf, d) ==
    SelectByPeakDistance(x, SelectByHeight(x, LocalMaxima(x, 1), tf), {}, d)

\* a set of indices as the increasing array find_peaks returns
RECURSIVE SortedSeq(_)
SortedSeq(S) ==
    IF S = {} THEN <<>>
    ELSE LET m == CHOOSE a \in S : \A b \in S : b <= a
         IN  Append(SortedSeq(S \ {m}), m)

(***************************************************************************)
(* Outputs of the zero-phase bandpass filter (lines 35-36).  The filter    *)
(* keeps the length of its input; its sample values are not computed here: *)
(* any piecewise-constant signal with at most two steps is an outcome.     *)
(***************************************************************************)
StepSignal(n, b1, a1, b2, a2) ==
    [i \in 1..n |-> (IF i > b1 THEN a1 ELSE 0) + (IF i > b2 THEN a2 ELSE 0)]

FilterOutputs(n) ==
    {StepSignal(n, b1, a1, b2, a2) :
        b1 \in 1..n, a1 \in StepHeights, b2 \in 1..n, a2 \in StepHeights}

(***************************************************************************)
(* detect_r_peaks(ecg, fs, threshold_factor)                               *)
(***************************************************************************)
\* the empty dict
NoHrv == <<>>

InitDetect ==
    /\ pc = "bandpass"
    /\ fs \in FsValues
    /\ ecg_len \in LenValues
    /\ threshold_factor \in TfValues
    /\ filtered = <<>>
    /\ window_size = 0
    /\ integrated = <<>>
    /\ peaks = <<>>
    /\ err = "none"
    /\ r_peaks = <<>>
    /\ hr = <<>>
    /\ hrv = NoHrv

\* lines 35-36: butter raises ValueError unless 15 < fs / 2, filtfilt raises
\* ValueError unless len(ecg) > padlen
BandpassFilter ==
    /\ pc = "bandpass"
    /\ IF fs <= 2 * HighCut \/ ecg_len <= PadLen
       THEN /\ pc' = "error"
            /\ err' = "ValueError"
            /\ UNCHANGED filtered
       ELSE /\ filtered' \in FilterOutputs(ecg_len)
            /\ pc' = "enhance"
            /\ UNCHANGED err
    /\ UNCHANGED <<fs, ecg_len, threshold_factor, window_size, integrated,
                   peaks, r_peaks, hr, hrv>>

\* lines 39-46: derivative, squaring, moving window integration
Enhance ==
    /\ pc = "enhance"
    /\ window_size' = WindowSize(fs)
    /\ integrated' = ConvolveSame(Squared(Diff(filtered)), WindowSize(fs))
    /\ pc' = "find_peaks"
    /\ UNCHANGED <<fs, ecg_len, threshold_factor, filtered, peaks, err,
                   r_peaks, hr, hrv>>

\* lines 49-54: threshold, find_peaks, return
ThresholdAndFindPeaks ==
    /\ pc = "find_peaks"
    /\ \E kept \in FindPeaks(integrated, threshold_factor, MinDistance(fs)) :
           peaks' = SortedSeq(kept)
    /\ pc' = "done"
    /\ UNCHANGED <<fs, ecg_len, threshold_factor, filtered, window_size,
                   integrated, err, r_peaks, hr, hrv>>

Next == BandpassFilter \/ Enhance \/ ThresholdAndFindPeaks

Spec == InitDetect /\ [][Next]_vars

(***************************************************************************)
(* Floating-point values as exact fractions [num, den] in lowest terms     *)
(* with den > 0; den = 0 stands for the values NumPy gives a division by   *)
(* zero: 0/0 is nan, 1/0 is inf, -1/0 is -inf.                             *)
(***************************************************************************)
Abs(n) == IF n < 0 THEN -n ELSE n
Sign(n) == IF n < 0 THEN -1 ELSE IF n > 0 THEN 1 ELSE 0

RECURSIVE Gcd(_, _)
Gcd(a, b) == IF b = 0 THEN a ELSE Gcd(b, a % b)

Frac(n, d) ==
    IF d = 0 THEN [num |-> Sign(n), den |-> 0]
    ELSE LET g == Gcd(Abs(n), Abs(d))
             s == IF d < 0 THEN -1 ELSE 1
         IN  [num |-> (s * n) \div g, den |-> (s * d) \div g]

NaN == [num |-> 0, den |-> 0]
Zero == [num |-> 0, den |-> 1]
IsFinite(x) == x.den > 0

\* x - y and x * y; an operand that is not finite gives nan (no infinity
\* reaches these operations: the sampling rate is positive)
FSub(x, y) ==
    IF x.den = 0 \/ y.den = 0 THEN NaN
    ELSE Frac(x.num * y.den - y.num * x.den, x.den * y.den)
FMul(x, y) ==
    IF x.den = 0 \/ y.den = 0 THEN NaN
    ELSE Frac(x.num * y.num, x.den * y.den)

RECURSIVE FSum(_, _)
\* s[1] + ... + s[k]
FSum(s, k) ==
    IF k = 0 THEN Zero
    ELSE LET r == FSum(s, k - 1)
         IN  IF r.den = 0 \/ s[k].den = 0 THEN NaN
             ELSE Frac(r.num * s[k].den + s[k].num * r.den, r.den * s[k].den)

\* a slip: the sum over one less than the count
MeanOverCountLessOne(s) ==
    LET t == FSum(s, Len(s))
    IN  IF t.den = 0 THEN NaN ELSE Frac(t.num, t.den * (Len(s) - 1))

\* np.mean: the sum over the count; nan (0/0) for an empty array
Mean(s) ==
    LET t == FSum(s, Len(s))
    IN  IF t.den = 0 THEN NaN ELSE Frac(t.num, t.den * Len(s))

\* np.sqrt, kept symbolic: the value whose square is x
Sqrt(x) == [radicand |-> x]

\* np.diff on float arrays
FDiff(s) == [i \in 1..(Len(s) - 1) |-> FSub(s[i + 1], s[i])]

\* np.std: the root of the mean squared deviation from the mean (ddof = 0)
Std(s) ==
    LET m == Mean(s)
    IN  Sqrt(Mean([i \in 1..Len(s) |-> FMul(FSub(s[i], m), FSub(s[i], m))]))

(***************************************************************************)
(* compute_heart_rate(r_peaks, fs)                                         *)
(***************************************************************************)
\* line 74: rr_intervals = np.diff(r_peaks) / fs, in seconds
RrSeconds(r, f) == [i \in 1..(Len(r) - 1) |-> Frac(r[i + 1] - r[i], f)]

\* a slip: the rate taken from intervals in milliseconds, as on line 99
HeartRateFromMillis(r, f) ==
    [i \in 1..(Len(r) - 1) |-> Frac(60 * f, (r[i + 1] - r[i]) * 1000)]

\* line 77: hr = 60.0 / rr_intervals
HeartRate(r, f) ==
    LET rr == RrSeconds(r, f)
    IN  [i \in 1..Len(rr) |-> Frac(60 * rr[i].den, rr[i].num)]

(***************************************************************************)
(* compute_hrv_metrics(r_peaks, fs)                                        *)
(***************************************************************************)
\* line 99: rr_intervals = np.diff(r_peaks) / fs * 1000, in milliseconds
RrMillis(r, f) == [i \in 1..(Len(r) - 1) |-> Frac((r[i + 1] - r[i]) * 1000, f)]

\* line 108: the successive differences whose absolute value is > 50 ms
Nn50(rr) ==
    LET d == FDiff(rr)
    IN  Cardinality({i \in 1..Len(d) : Abs(d[i].num) > 50 * d[i].den})

\* line 109: nn50 / len(rr_intervals) * 100
Pnn50(rr) == Frac(Nn50(rr) * 100, Len(rr))

\* lines 104-109
TimeDomain(rr) ==
    [mean_rr |-> Mean(rr),
     std_rr  |-> Std(rr),
     rmssd   |-> LET d == FDiff(rr)
                 IN  Sqrt(Mean([i \in 1..Len(d) |-> FMul(d[i], d[i])])),
     sdsd    |-> Std(FDiff(rr)),
     nn50    |-> Nn50(rr),
     pnn50   |-> Pnn50(rr)]

\* a slip: the quotient without the guard on hf_power
LfHfRatioUnguarded(lf, hf) == Frac(lf, hf)

\* line 124: lf_power / hf_power if hf_power > 0 else 0
LfHfRatio(lf, hf) == IF hf > 0 THEN Frac(lf, hf) ELSE Zero

\* a slip: the spectral metrics computed from 10 intervals on
HasSpectrumFromTen(rr) == Len(rr) >= 10

\* line 112: the spectral metrics are computed for more than 10 intervals
HasSpectrum(rr) == Len(rr) > 10

\* lines 113-124.  lf and hf are the band powers np.trapz gives for the
\* Welch density, which is not computed here: any two non-negative values
\* are an outcome.
FrequencyDomain(lf, hf) ==
    [lf_power |-> lf, hf_power |-> hf, lf_hf_ratio |-> LfHfRatio(lf, hf)]

\* the beat index arrays tried: the empty one, and every one that starts at
\* 0 and has up to MaxBeats beats, the gaps being RegularGap but for at most
\* MaxIrregular of them, which are IrregularGap
BeatsFrom(g) == [i \in 1..(Len(g) + 1) |-> SumRange(g, 1, i - 1)]

GapArrays(m) ==
    {g \in [1..m -> {RegularGap, IrregularGap}] :
        Cardinality({i \in 1..m : g[i] = IrregularGap}) <= MaxIrregular}

BeatArrays ==
    {<<>>} \cup UNION {{BeatsFrom(g) : g \in GapArrays(n - 1)} :
                        n \in 1..MaxBeats}

\* as in main(): the rate and then the HRV metrics of the same beats
InitHrv ==
    /\ pc = "compute_heart_rate"
    /\ fs \in RateFsValues
    /\ r_peaks \in BeatArrays
    /\ hr = <<>>
    /\ hrv = NoHrv
    /\ ecg_len = 0
    /\ threshold_factor = 0
    /\ filtered = <<>>
    /\ window_size = 0
    /\ integrated = <<>>
    /\ peaks = <<>>
    /\ err = "none"

\* lines 73-79
ComputeHeartRate ==
    /\ pc = "compute_heart_rate"
    /\ hr' = HeartRate(r_peaks, fs)
    /\ pc' = "compute_hrv_metrics"
    /\ UNCHANGED <<fs, ecg_len, threshold_factor, filtered, window_size,
                   integrated, peaks, err, r_peaks, hrv>>

\* lines 98-126
ComputeHrvMetrics ==
    /\ pc = "compute_hrv_metrics"
    /\ LET rr_intervals == RrMillis(r_peaks, fs)
           time_domain  == TimeDomain(rr_intervals)
       IN  IF HasSpectrum(rr_intervals)
           THEN \E lf \in 0..MaxPower, hf \in 0..MaxPower :
                    hrv' = time_domain @@ FrequencyDomain(lf, hf)
           ELSE hrv' = time_domain
    /\ pc' = "hrv_done"
    /\ UNCHANGED <<fs, ecg_len, threshold_factor, filtered, window_size,
                   integrated, peaks, err, r_peaks, hr>>

NextHrv == ComputeHeartRate \/ ComputeHrvMetrics

SpecHrv == InitHrv /\ [][NextHrv]_vars

(***************************************************************************)
(* Properties of detect_r_peaks.                                           *)
(***************************************************************************)
Returned == pc = "done"

\* round(0.6 * fs); 0.6 * fs is never half-way for a whole fs
RoundedMinDistance(f) == (6 * f + 5) \div 10

\* C1 as stated: the returned beat indices are strictly increasing and
\* consecutive ones differ by at least round(0.6 * fs) samples.
C1_GapsAtLeastRounded ==
    Returned =>
        \A i \in 1..(Len(peaks) - 1) :
            /\ peaks[i] < peaks[i + 1]
            /\ peaks[i + 1] - peaks[i] >= RoundedMinDistance(fs)

\* C1 amended: the returned beat indices are strictly increasing and
\* consecutive ones differ by at least int(0.6 * fs) samples, the product
\* truncated, not rounded.
C1_GapsAtLeastTruncated ==
    Returned =>
        \A i \in 1..(Len(peaks) - 1) :
            /\ peaks[i] < peaks[i + 1]
            /\ peaks[i + 1] - peaks[i] >= (6 * fs) \div 10

\* C1 witness: two beats are returned exactly int(0.6 * fs) samples apart at
\* a sampling rate where rounding would ask for one sample more.
C1_Witness ==
    /\ Returned
    /\ Len(peaks) >= 2
    /\ peaks[2] - peaks[1] = (6 * fs) \div 10
    /\ (6 * fs) \div 10 < RoundedMinDistance(fs)

\* C2: every returned index is a position of the recording,
\* 0 <= index < len(ecg).
C2_IndicesInRecording ==
    Returned => \A i \in 1..Len(peaks) : 0 <= peaks[i] /\ peaks[i] < ecg_len

\* C10: a call with threshold_factor outside (0, 1] does no filtering and no
\* peak search and returns no beats.  Stated for the calls the bandpass
\* filter accepts, so that a violation is a call that went on with the bad
\* factor and not one that another check stopped.
C10_BadThresholdRejected ==
    (/\ threshold_factor <= 0 \/ threshold_factor > TfDen
     /\ fs > 2 * HighCut
     /\ ecg_len > PadLen)
        => /\ pc \in {"bandpass", "error"}
           /\ filtered = <<>>
           /\ peaks = <<>>

(***************************************************************************)
(* Properties of compute_heart_rate and compute_hrv_metrics.               *)
(***************************************************************************)
RateReturned == pc \in {"compute_hrv_metrics", "hrv_done"}
HrvReturned == pc = "hrv_done"

StrictlyIncreasing(r) == \A i \in 1..(Len(r) - 1) : r[i] < r[i + 1]
EqualGaps(r) == \A i \in 1..(Len(r) - 1) : r[i + 1] - r[i] = r[2] - r[1]
IntervalCount == Len(r_peaks) - 1
TimeKeys == {"mean_rr", "std_rr", "rmssd", "sdsd", "nn50", "pnn50"}
FrequencyKeys == {"lf_power", "hf_power", "lf_hf_ratio"}

\* C3: compute_heart_rate given 0 or 1 beats fails with
\* InsufficientBeatsError and returns nothing.
C3_RateRejectsFewBeats ==
    Len(r_peaks) < 2 =>
        \/ pc = "compute_heart_rate"
        \/ err = "InsufficientBeatsError"

\* C4: compute_hrv_metrics given 0, 1 or 2 beats fails with
\* InsufficientBeatsError and returns no metrics.
C4_HrvRejectsFewIntervals ==
    Len(r_peaks) <= 2 =>
        \/ pc # "hrv_done"
        \/ err = "InsufficientBeatsError" /\ hrv = NoHrv

\* C5: for n >= 2 strictly increasing beats and fs > 0, compute_heart_rate
\* yields n - 1 rates with rate[i] * (index[i+1] - index[i]) = 60 * fs; for
\* [0, 100, 200] at fs = 100 the intervals are [1, 1] s and the rates
\* [60, 60] BPM.
C5_RatePerInterval ==
    (RateReturned /\ Len(r_peaks) >= 2 /\ StrictlyIncreasing(r_peaks) /\ fs > 0)
        => /\ Len(hr) = Len(r_peaks) - 1
           /\ \A i \in 1..Len(hr) :
                  /\ IsFinite(hr[i])
                  /\ hr[i].num * (r_peaks[i + 1] - r_peaks[i])
                         = 60 * fs * hr[i].den
           /\ (r_peaks = <<0, 100, 200>> /\ fs = 100)
                  => /\ RrSeconds(r_peaks, fs) = <<Frac(1, 1), Frac(1, 1)>>
                     /\ hr = <<Frac(60, 1), Frac(60, 1)>>

\* C5 witness: the rates of [0, 100, 200] at fs = 100 have been computed.
C5_Witness ==
    /\ RateReturned
    /\ r_peaks = <<0, 100, 200>>
    /\ fs = 100
    /\ hr = <<[num |-> 60, den |-> 1], [num |-> 60, den |-> 1]>>

Over50(i) ==
    Abs((r_peaks[i + 2] - r_peaks[i + 1]) - (r_peaks[i + 1] - r_peaks[i])) * 1000
        > 50 * fs

\* C7: whenever compute_hrv_metrics returns, nn50 is the number of
\* successive interval differences strictly above 50 ms in absolute value,
\* pnn50 = nn50 / intervalCount * 100, and pnn50 lies in [0, 100].
C7_Nn50AndPnn50 ==
    HrvReturned =>
        /\ hrv.nn50 = Cardinality({i \in 1..(IntervalCount - 1) : Over50(i)})
        /\ IsFinite(hrv.pnn50)
        /\ hrv.pnn50.num * IntervalCount = hrv.nn50 * 100 * hrv.pnn50.den
        /\ 0 <= hrv.pnn50.num
        /\ hrv.pnn50.num <= 100 * hrv.pnn50.den

\* C8: whenever lf_hf_ratio is reported it is a finite value >= 0, equal to
\* lf_power / hf_power when hf_power is not 0 and to 0 when it is.
C8_RatioDefined ==
    (HrvReturned /\ "lf_hf_ratio" \in DOMAIN hrv)
        => /\ IsFinite(hrv.lf_hf_ratio)
           /\ hrv.lf_hf_ratio.num >= 0
           /\ hrv.hf_power # 0
                  => hrv.lf_hf_ratio.num * hrv.hf_power
                         = hrv.lf_power * hrv.lf_hf_ratio.den
           /\ hrv.hf_power = 0 => hrv.lf_hf_ratio = Zero

\* C8 witness: a ratio has been reported for hf_power = 0 and lf_power > 0.
C8_Witness ==
    /\ HrvReturned
    /\ "lf_hf_ratio" \in DOMAIN hrv
    /\ hrv.hf_power = 0
    /\ hrv.lf_power > 0
    /\ hrv.lf_hf_ratio = Zero

\* C9: the result has lf_power, hf_power and lf_hf_ratio exactly when there
\* are at least 11 intervals (12 beats); with 2 to 10 intervals it has
\* exactly the six time-domain keys, and no error is raised.
C9_FrequencyKeys ==
    HrvReturned =>
        /\ (FrequencyKeys \subseteq DOMAIN hrv) <=> IntervalCount >= 11
        /\ (FrequencyKeys \cap DOMAIN hrv = {}) <=> IntervalCount < 11
        /\ (IntervalCount >= 2 /\ IntervalCount <= 10)
               => DOMAIN hrv = TimeKeys /\ err = "none"

\* C9 witness: ten intervals have given exactly the six time-domain keys.
C9_Witness ==
    /\ HrvReturned
    /\ IntervalCount = 10
    /\ DOMAIN hrv = TimeKeys

(***************************************************************************)
(* Further properties of detect_r_peaks.                                   *)
(***************************************************************************)
FilterAccepts == fs > 2 * HighCut /\ ecg_len > PadLen
Integrated == pc \in {"find_peaks", "done"}
IsConstant(x) == \A i \in 1..Len(x) : x[i] = x[1]

\* C11: for an all-zero or constant envelope no index is reported as a beat.
C11_FlatEnvelopeNoBeats ==
    (Returned /\ IsConstant(integrated)) => peaks = <<>>

\* C11 witness: a call has returned for an envelope that is constant and
\* not zero, whose threshold at the default factor lies below the constant.
C11_Witness ==
    /\ Returned
    /\ IsConstant(integrated)
    /\ integrated[1] > 0
    /\ threshold_factor = 6
    /\ peaks = <<>>

\* C12: a call whose recording is shorter than one moving-average window,
\* len(ecg) - 1 < int(0.15 * fs), does no filtering and returns no beats.
\* Stated for the recordings the bandpass filter accepts.
C12_ShortRecordingRejected ==
    (FilterAccepts /\ ecg_len - 1 < (15 * fs) \div 100)
        => /\ pc \in {"bandpass", "error"}
           /\ pc = "error" => err = "InsufficientDataError"
           /\ filtered = <<>>
           /\ peaks = <<>>

\* p is the midpoint (l + r) // 2 of a stretch l..r of equal samples of x
\* that is higher than the sample before it and the sample after it
IsLocalMaximum(x, p) ==
    \E l \in 1..p : \E r \in {2 * p - l, 2 * p - l + 1} :
        /\ r <= Len(x) - 2
        /\ x[l] < x[l + 1]
        /\ x[r + 2] < x[r + 1]
        /\ \A i \in l..r : x[i + 1] = x[p + 1]

\* the height of p reaches threshold_factor * max(envelope)
ReachesThreshold(p) ==
    integrated[p + 1] * 10 >= threshold_factor * SeqMax(integrated)

ReturnedPeaks == {peaks[i] : i \in 1..Len(peaks)}

\* the local maxima that reach the threshold and are not returned
Suppressed ==
    {q \in 0..(Len(integrated) - 1) :
        /\ q \notin ReturnedPeaks
        /\ IsLocalMaximum(integrated, q)
        /\ ReachesThreshold(q)}

\* C13: every returned index is a local maximum of the envelope whose height
\* is at least threshold_factor * max(envelope), and every local maximum
\* that reaches the threshold and is not returned lies closer than
\* int(0.6 * fs) samples to a returned index that is at least as tall.
C13_TallestKept ==
    Returned =>
        /\ \A p \in ReturnedPeaks :
               /\ 0 <= p /\ p < Len(integrated)
               /\ IsLocalMaximum(integrated, p)
               /\ ReachesThreshold(p)
        /\ \A q \in Suppressed :
               \E p \in ReturnedPeaks :
                   /\ Abs(p - q) < (6 * fs) \div 10
                   /\ integrated[p + 1] >= integrated[q + 1]

\* C13 witness: a lower maximum left of a taller one has been suppressed.
C13_Witness ==
    /\ Returned
    /\ \E q \in Suppressed : \E p \in ReturnedPeaks :
           /\ q < p
           /\ integrated[q + 1] < integrated[p + 1]

\* C14 as stated: the moving-average window is round(0.15 * fs) samples long.
C14_WindowRounded ==
    Integrated => window_size = (15 * fs + 50) \div 100

\* C14 amended: the moving-average window is int(0.15 * fs) samples long,
\* the product truncated, and the envelope holds the sums of that many
\* consecutive squared differences.
C14_WindowTruncated ==
    Integrated =>
        /\ window_size = (15 * fs) \div 100
        /\ Len(integrated) = Max2(ecg_len - 1, (15 * fs) \div 100)
        /\ integrated
               = ConvolveSame(Squared(Diff(filtered)), (15 * fs) \div 100)

\* C14 witness: the envelope has been computed at fs = 250 with a window of
\* 37 samples, where 0.15 * fs = 37.5.
C14_Witness ==
    /\ Integrated
    /\ fs = 250
    /\ window_size = 37

====
